---------------------------- MODULE Spec2Model ----------------------------
(***************************************************************************)
(* Model of src/main.py: the DOCX report generator's image resolution       *)
(* (get_student_image_path, get_project_image, download_image_from_storage),*)
(* the scaling function resize_image_for_docx and the POST / handler        *)
(* generate_docx.                                                           *)
(*                                                                         *)
(* A Python str is a sequence of one-character strings, so that lower(),    *)
(* replace(), split(), re.sub(), slicing, percent-decoding and fnmatch are  *)
(* computed character by character as the code computes them.               *)
(***************************************************************************)
EXTENDS Integers, Sequences, FiniteSets, TLC

(***************************************************************************)
(* Python values                                                            *)
(***************************************************************************)
\* Python's None, and a dictionary key that is not present
None == <<"None">>
Absent == <<"Absent">>

\* not x, for x a str or None (main.py:40, 46, 85, 140)
Falsy(x) == x = None \/ x = Absent \/ x = <<>>

(***************************************************************************)
(* str operations                                                           *)
(***************************************************************************)
UpperLetters == <<"A","B","C","D","E","F","G","H","I","J","K","L","M",
                  "N","O","P","Q","R","S","T","U","V","W","X","Y","Z">>
LowerLetters == <<"a","b","c","d","e","f","g","h","i","j","k","l","m",
                  "n","o","p","q","r","s","t","u","v","w","x","y","z">>
Digits == {"0","1","2","3","4","5","6","7","8","9"}

Range(s) == {s[i] : i \in DOMAIN s}

IsLower(c) == c \in Range(LowerLetters)
IsUpper(c) == c \in Range(UpperLetters)

LowerChar(c) ==
    IF IsUpper(c)
    THEN LowerLetters[CHOOSE i \in DOMAIN UpperLetters : UpperLetters[i] = c]
    ELSE c

\* str.lower()
Lower(s) == [i \in DOMAIN s |-> LowerChar(s[i])]

\* s.replace(a, b) for single characters a, b
ReplaceChar(s, a, b) == [i \in DOMAIN s |-> IF s[i] = a THEN b ELSE s[i]]

\* re.sub(r'[^a-z]', '', s): the characters a-z of s, in order
RECURSIVE AlphaOnly(_)
AlphaOnly(s) ==
    IF s = <<>> THEN <<>>
    ELSE IF IsLower(Head(s)) THEN <<Head(s)>> \o AlphaOnly(Tail(s))
    ELSE AlphaOnly(Tail(s))

\* s[:n]
Take(s, n) == IF Len(s) <= n THEN s ELSE SubSeq(s, 1, n)

\* s.startswith(p)
StartsWith(s, p) == Len(p) <= Len(s) /\ SubSeq(s, 1, Len(p)) = p

\* s.replace(a, b) for a non-empty substring a: leftmost, non-overlapping
RECURSIVE Replace(_, _, _)
Replace(s, a, b) ==
    IF s = <<>> THEN <<>>
    ELSE IF StartsWith(s, a) THEN b \o Replace(SubSeq(s, Len(a) + 1, Len(s)), a, b)
    ELSE <<Head(s)>> \o Replace(Tail(s), a, b)

\* s.split(sep)[-1]: what follows the last occurrence of sep (s when there is none)
SplitLast(s, sep) ==
    IF \E i \in 1..Len(s) : StartsWith(SubSeq(s, i, Len(s)), sep)
    THEN LET i == CHOOSE j \in 1..Len(s) :
                    /\ StartsWith(SubSeq(s, j, Len(s)), sep)
                    /\ \A k \in (j+1)..Len(s) : ~StartsWith(SubSeq(s, k, Len(s)), sep)
         IN SubSeq(s, i + Len(sep), Len(s))
    ELSE s

\* s.split(sep)[0]: what precedes the first occurrence of sep (s when there is none)
SplitFirst(s, sep) ==
    IF \E i \in 1..Len(s) : StartsWith(SubSeq(s, i, Len(s)), sep)
    THEN LET i == CHOOSE j \in 1..Len(s) :
                    /\ StartsWith(SubSeq(s, j, Len(s)), sep)
                    /\ \A k \in 1..(j-1) : ~StartsWith(SubSeq(s, k, Len(s)), sep)
         IN SubSeq(s, 1, i - 1)
    ELSE s

\* s.split(): the maximal runs of non-whitespace characters, in order
RECURSIVE SplitWs(_, _)
SplitWs(s, cur) ==
    IF s = <<>> THEN (IF cur = <<>> THEN <<>> ELSE <<cur>>)
    ELSE IF Head(s) = " "
         THEN (IF cur = <<>> THEN <<>> ELSE <<cur>>) \o SplitWs(Tail(s), <<>>)
         ELSE SplitWs(Tail(s), Append(cur, Head(s)))

Split(s) == SplitWs(s, <<>>)

\* fnmatch.fnmatch(name, pat) on POSIX (normcase is the identity): '*' matches any
\* run of characters, '?' any one character, every other character itself, and the
\* whole name must match.  Bracket classes are not modelled: no modelled input
\* holds '['.
RECURSIVE fnmatch(_, _)
fnmatch(name, pat) ==
    IF pat = <<>> THEN name = <<>>
    ELSE IF Head(pat) = "*"
         THEN fnmatch(name, Tail(pat)) \/ (name # <<>> /\ fnmatch(Tail(name), pat))
    ELSE IF Head(pat) = "?"
         THEN name # <<>> /\ fnmatch(Tail(name), Tail(pat))
    ELSE name # <<>> /\ Head(name) = Head(pat) /\ fnmatch(Tail(name), Tail(pat))


(***************************************************************************)
(* The blob store (the bucket) and what the resolvers ask of it             *)
(***************************************************************************)
\* store:  the names of the bucket's blobs, in the order list_blobs yields them
\* faults: the store operations that raise, as <<operation, argument>>
VARIABLES store, faults

\* a store operation, as recorded in a call's trace
Op(kind, arg) == <<kind, arg>>

\* BytesIO(blob.download_as_bytes()) of the blob at path
BytesIO(path) == <<"BytesIO", path>>

\* storage_client.list_blobs(bucket, prefix=prefix), as a list
list_blobs(prefix) == SelectSeq(store, LAMBDA n : StartsWith(n, prefix))

download_image_from_storage(image_path) ==
    IF Falsy(image_path) THEN [value |-> None, ops |-> <<>>]
    ELSE IF Op("exists", image_path) \in faults
         THEN [value |-> None, ops |-> <<Op("exists", image_path)>>]
    ELSE IF image_path \notin Range(store)
         THEN [value |-> None, ops |-> <<Op("exists", image_path)>>]
    ELSE IF Op("download", image_path) \in faults
         THEN [value |-> None,
               ops |-> <<Op("exists", image_path), Op("download", image_path)>>]
    ELSE [value |-> BytesIO(image_path),
          ops |-> <<Op("exists", image_path), Op("download", image_path)>>]

(***************************************************************************)
(* Filename normalisation                                                   *)
(***************************************************************************)
s_unknown == <<"u","n","k","n","o","w","n">>

\* a character kept by re.sub(r'[^a-zA-Z0-9_.-]', '', filename)
IsFilenameChar(c) == IsLower(c) \/ IsUpper(c) \/ c \in Digits \/ c \in {"_", ".", "-"}

RECURSIVE StripSpecial(_)
StripSpecial(s) ==
    IF s = <<>> THEN <<>>
    ELSE IF IsFilenameChar(Head(s)) THEN <<Head(s)>> \o StripSpecial(Tail(s))
    ELSE StripSpecial(Tail(s))

clean_filename(filename) ==
    IF Falsy(filename) THEN s_unknown ELSE StripSpecial(filename)

(***************************************************************************)
(* get_student_image_path                                                   *)
(***************************************************************************)
Star == <<"*">>

\* StudentPatternList with the two first-name-alone patterns left out
StudentPatternListNoFirstAlone(student_name) ==
    LET clean_name == ReplaceChar(Lower(student_name), " ", "_")
        name_parts == Split(student_name)
        first_name == IF name_parts # <<>> THEN Lower(name_parts[1]) ELSE <<>>
        last_name  == IF Len(name_parts) > 1
                      THEN Lower(name_parts[Len(name_parts)]) ELSE <<>>
    IN << Star \o clean_name \o Star,
          IF last_name # <<>> THEN Star \o first_name \o <<"_">> \o last_name \o Star
                              ELSE <<>>,
          IF last_name # <<>> THEN Star \o first_name \o Star \o last_name \o Star
                              ELSE <<>>,
          IF last_name # <<>> THEN Star \o last_name \o Star \o first_name \o Star
                              ELSE <<>>,
          Star \o AlphaOnly(first_name) \o Star,
          Star \o AlphaOnly(clean_name) \o Star >>

\* the eight patterns of the list literal, "" where the conditional gives ""
StudentPatternList(student_name) ==
    LET clean_name == ReplaceChar(Lower(student_name), " ", "_")
        name_parts == Split(student_name)
        first_name == IF name_parts # <<>> THEN Lower(name_parts[1]) ELSE <<>>
        last_name  == IF Len(name_parts) > 1
                      THEN Lower(name_parts[Len(name_parts)]) ELSE <<>>
    IN << Star \o clean_name \o Star,
          IF last_name # <<>> THEN Star \o first_name \o <<"_">> \o last_name \o Star
                              ELSE <<>>,
          Star \o first_name \o Star,
          IF last_name # <<>> THEN Star \o first_name \o Star \o last_name \o Star
                              ELSE <<>>,
          IF last_name # <<>> THEN Star \o last_name \o Star \o first_name \o Star
                              ELSE <<>>,
          Star \o first_name \o Star,
          Star \o AlphaOnly(first_name) \o Star,
          Star \o AlphaOnly(clean_name) \o Star >>

\* patterns_to_try after [p for p in patterns_to_try if p]
StudentPatterns(student_name) ==
    SelectSeq(StudentPatternList(student_name), LAMBDA p : p # <<>>)

\* blob.name.lower().split('/')[-1]
BaseFilename(name) == SplitLast(Lower(name), <<"/">>)

\* the inner loop: the first blob of the listing whose filename matches pattern
RECURSIVE FirstBlob(_, _)
FirstBlob(pattern, blobs) ==
    IF blobs = <<>> THEN None
    ELSE IF fnmatch(BaseFilename(Head(blobs)), pattern) THEN Head(blobs)
    ELSE FirstBlob(pattern, Tail(blobs))

\* the loops of FindFirstMatch nested the other way round: blobs outermost
FindFirstMatchBlobMajor(patterns_to_try, blobs, k) ==
    LET hit(j, i) == fnmatch(BaseFilename(blobs[j]), patterns_to_try[i])
        js == { j \in DOMAIN blobs : \E i \in DOMAIN patterns_to_try : hit(j, i) }
    IN IF js = {} THEN [blob |-> None, position |-> 0]
       ELSE LET j0 == CHOOSE j \in js : \A x \in js : j <= x
                is == { i \in DOMAIN patterns_to_try : hit(j0, i) }
            IN [blob |-> blobs[j0], position |-> CHOOSE i \in is : \A x \in is : i <= x]

\* the pattern loop without the return at the first match: the last pattern that
\* matches some blob decides
FindFirstMatchLastPattern(patterns_to_try, blobs, k) ==
    LET hits == { i \in k..Len(patterns_to_try) :
                     FirstBlob(patterns_to_try[i], blobs) # None }
    IN IF hits = {} THEN [blob |-> None, position |-> 0]
       ELSE LET i == CHOOSE x \in hits : \A y \in hits : y <= x
            IN [blob |-> FirstBlob(patterns_to_try[i], blobs), position |-> i]

\* the nested loops: patterns in order, blobs in listing order, return at the
\* first match; position is the 1-based place of the pattern that matched
RECURSIVE FindFirstMatch(_, _, _)
FindFirstMatch(patterns_to_try, blobs, k) ==
    IF k > Len(patterns_to_try) THEN [blob |-> None, position |-> 0]
    ELSE LET b == FirstBlob(patterns_to_try[k], blobs)
         IN IF b # None THEN [blob |-> b, position |-> k]
            ELSE FindFirstMatch(patterns_to_try, blobs, k + 1)

s_students == <<"s","t","u","d","e","n","t","s","/">>

\* get_student_image_path with the listing moved above the name check
get_student_image_path_list_first(name) ==
    IF Op("list", s_students) \in faults
    THEN [value |-> None, raised |-> TRUE, ops |-> <<Op("list", s_students)>>,
          position |-> 0]
    ELSE IF Falsy(name)
    THEN [value |-> None, raised |-> FALSE, ops |-> <<Op("list", s_students)>>,
          position |-> 0]
    ELSE LET m == FindFirstMatch(StudentPatterns(name), list_blobs(s_students), 1)
         IN [value |-> m.blob, raised |-> FALSE,
             ops |-> <<Op("list", s_students)>>, position |-> m.position]

get_student_image_path(name) ==
    IF Falsy(name)
    THEN [value |-> None, raised |-> FALSE, ops |-> <<>>, position |-> 0]
    ELSE IF Op("list", s_students) \in faults
    THEN [value |-> None, raised |-> TRUE, ops |-> <<Op("list", s_students)>>,
          position |-> 0]
    ELSE LET m == FindFirstMatch(StudentPatterns(name), list_blobs(s_students), 1)
         IN [value |-> m.blob, raised |-> FALSE,
             ops |-> <<Op("list", s_students)>>, position |-> m.position]

(***************************************************************************)
(* get_project_image                                                        *)
(***************************************************************************)
\* d.get(key, default) on a record whose missing keys hold Absent
Get(d, key, default) == IF d[key] = Absent THEN default ELSE d[key]

\* the character a %XX escape stands for, for the escapes of the modelled alphabet
PercentEscapes ==
    { <<"2", "F", "/">>, <<"2", "0", " ">>, <<"2", "5", "%">>, <<"2", "8", "(">> }

IsEscape(s) ==
    /\ Len(s) >= 3
    /\ s[1] = "%"
    /\ \E e \in PercentEscapes : e[1] = s[2] /\ e[2] = s[3]

\* unquote forgotten: the path comes back as it went in
unquoteNothing(s) == s

\* requests.utils.unquote: one pass, every %XX escape replaced by its character
RECURSIVE unquote(_)
unquote(s) ==
    IF s = <<>> THEN <<>>
    ELSE IF IsEscape(s)
         THEN LET e == CHOOSE x \in PercentEscapes : x[1] = s[2] /\ x[2] = s[3]
              IN <<e[3]>> \o unquote(SubSeq(s, 4, Len(s)))
    ELSE <<Head(s)>> \o unquote(Tail(s))

\* image_path as lines 87-88 compute it from imageUrl
ImagePath(imageUrl) ==
    Replace(Replace(SplitFirst(SplitLast(imageUrl, <<"/", "o", "/">>), <<"?">>),
                    <<"%", "2", "F">>, <<"/">>),
            <<"%", "2", "0">>, <<" ">>)

s_projects == <<"p","r","o","j","e","c","t","s","/">>
s_jpg == <<".","j","p","g">>
s_png == <<".","p","n","g">>
s_project_ == <<"p","r","o","j","e","c","t","_">>
s_dec_cap_vale == <<"d","e","c"," ","c","a","p"," ","v","a","l","e">>
s_IOTbasedRealTimeApp ==
    <<"I","O","T","b","a","s","e","d","R","e","a","l","T","i","m","e","A","p","p">>
s_Scratch == <<"S","c","r","a","t","c","h">>
s_default_project ==
    s_projects \o <<"d","e","f","a","u","l","t","_","p","r","o","j","e","c","t">> \o s_jpg

\* the slice bound of project_title[:10]
TitlePrefixLen == 10

\* ProjectPatterns with the project_<id> candidates tried before the id ones
ProjectPatternsPrefixedFirst(project_data) ==
    LET project_id == Get(project_data, "id", s_unknown)
        project_title == clean_filename(Get(project_data, "title", s_unknown))
        original_title == Get(project_data, "title", s_unknown)
    IN << s_projects \o s_project_ \o project_id \o s_jpg,
          s_projects \o s_project_ \o project_id \o s_png,
          s_projects \o project_id \o s_jpg,
          s_projects \o project_id \o s_png,
          s_projects \o project_title \o s_jpg,
          s_projects \o project_title \o s_png,
          s_projects \o original_title \o s_jpg,
          s_projects \o original_title \o s_png,
          s_projects \o Star \o Take(project_title, TitlePrefixLen) \o Star \o s_jpg,
          s_projects \o Star \o Take(project_title, TitlePrefixLen) \o Star \o s_png,
          s_projects \o s_dec_cap_vale \o s_png,
          s_projects \o s_IOTbasedRealTimeApp \o s_jpg,
          s_projects \o s_Scratch \o s_png >>

\* patterns_to_try, the thirteen candidates in the order of the list literal
ProjectPatterns(project_data) ==
    LET project_id == Get(project_data, "id", s_unknown)
        project_title == clean_filename(Get(project_data, "title", s_unknown))
        original_title == Get(project_data, "title", s_unknown)
    IN << s_projects \o project_id \o s_jpg,
          s_projects \o project_id \o s_png,
          s_projects \o s_project_ \o project_id \o s_jpg,
          s_projects \o s_project_ \o project_id \o s_png,
          s_projects \o project_title \o s_jpg,
          s_projects \o project_title \o s_png,
          s_projects \o original_title \o s_jpg,
          s_projects \o original_title \o s_png,
          s_projects \o Star \o Take(project_title, TitlePrefixLen) \o Star \o s_jpg,
          s_projects \o Star \o Take(project_title, TitlePrefixLen) \o Star \o s_png,
          s_projects \o s_dec_cap_vale \o s_png,
          s_projects \o s_IOTbasedRealTimeApp \o s_jpg,
          s_projects \o s_Scratch \o s_png >>

\* '*' in pattern
IsWildcard(pattern) == "*" \in Range(pattern)

\* the blob loop of a wildcard candidate: every listed blob whose full name matches
\* is downloaded until one download succeeds
RECURSIVE TryBlobs(_, _)
TryBlobs(pattern, blobs) ==
    IF blobs = <<>> THEN [value |-> None, ops |-> <<>>]
    ELSE IF fnmatch(Head(blobs), pattern)
         THEN LET d == download_image_from_storage(Head(blobs))
              IN IF d.value # None THEN d
                 ELSE LET r == TryBlobs(pattern, Tail(blobs))
                      IN [value |-> r.value, ops |-> d.ops \o r.ops]
    ELSE TryBlobs(pattern, Tail(blobs))

\* TryPattern reading a listing of projects/ taken before the candidate loop: a
\* wildcard candidate makes no list_blobs call of its own
TryPatternListedBefore(pattern) ==
    IF IsWildcard(pattern)
    THEN LET r == TryBlobs(pattern, list_blobs(s_projects))
         IN [value |-> r.value, raised |-> FALSE, ops |-> r.ops]
    ELSE LET d == download_image_from_storage(pattern)
         IN [value |-> d.value, raised |-> FALSE, ops |-> d.ops]

\* one pass of the candidate loop: a wildcard candidate lists projects/ and tries
\* the matching blobs, a literal candidate is downloaded directly
TryPattern(pattern) ==
    IF IsWildcard(pattern)
    THEN IF Op("list", s_projects) \in faults
         THEN [value |-> None, raised |-> TRUE, ops |-> <<Op("list", s_projects)>>]
         ELSE LET r == TryBlobs(pattern, list_blobs(s_projects))
              IN [value |-> r.value, raised |-> FALSE,
                  ops |-> <<Op("list", s_projects)>> \o r.ops]
    ELSE LET d == download_image_from_storage(pattern)
         IN [value |-> d.value, raised |-> FALSE, ops |-> d.ops]

\* TryPatterns without the default asset: None once the candidates are exhausted
RECURSIVE TryPatternsNoDefault(_, _)
TryPatternsNoDefault(patterns_to_try, k) ==
    IF k > Len(patterns_to_try)
    THEN [value |-> None, raised |-> FALSE, ops |-> <<>>]
    ELSE LET r == TryPattern(patterns_to_try[k])
         IN IF r.raised \/ r.value # None THEN r
            ELSE LET rest == TryPatternsNoDefault(patterns_to_try, k + 1)
                 IN [value |-> rest.value, raised |-> rest.raised,
                     ops |-> r.ops \o rest.ops]

\* the candidate loop from candidate k on, then the default asset
RECURSIVE TryPatterns(_, _)
TryPatterns(patterns_to_try, k) ==
    IF k > Len(patterns_to_try)
    THEN LET d == download_image_from_storage(s_default_project)
         IN [value |-> d.value, raised |-> FALSE, ops |-> d.ops]
    ELSE LET r == TryPattern(patterns_to_try[k])
         IN IF r.raised \/ r.value # None THEN r
            ELSE LET rest == TryPatterns(patterns_to_try, k + 1)
                 IN [value |-> rest.value, raised |-> rest.raised,
                     ops |-> r.ops \o rest.ops]

\* the imageUrl block: the decoded path, then the fully percent-decoded path when
\* it differs
TryImageUrl(project_data) ==
    IF Falsy(project_data.imageUrl) THEN [value |-> None, ops |-> <<>>]
    ELSE LET image_path == ImagePath(project_data.imageUrl)
             first == download_image_from_storage(image_path)
             decoded_path == unquote(image_path)
         IN IF first.value # None THEN first
            ELSE IF decoded_path # image_path
                 THEN LET second == download_image_from_storage(decoded_path)
                      IN [value |-> second.value, ops |-> first.ops \o second.ops]
            ELSE first

get_project_image(project_data) ==
    LET u == TryImageUrl(project_data)
    IN IF u.value # None THEN [value |-> u.value, raised |-> FALSE, ops |-> u.ops]
       ELSE LET r == TryPatterns(ProjectPatterns(project_data), 1)
            IN [value |-> r.value, raised |-> r.raised, ops |-> u.ops \o r.ops]

(***************************************************************************)
(* State of one call, and the inputs the calls are checked on               *)
(***************************************************************************)
\* pc:              "call", "call_student" or "call_project" before the modelled
\*                  function runs, "done" after it
\* patterns_to_try: the pattern list handed to the matching loops
\* blobs:           the listing handed to the matching loops
\* student_name:    the argument of get_student_image_path
\* project_data:    the argument of get_project_image
\* ret:             what the call returned, with the store operations it made
\* image_size:      <<width, height>> of the image handed to resize_image_for_docx,
\*                  or Unreadable
\* max_size:        <<max_width, max_height>>, in hundredths of an inch
VARIABLES pc, patterns_to_try, blobs, student_name, project_data, ret,
          image_size, max_size

\* the state of one POST or GET to /
\* method:          the request's method
\* projects_data:   what fetch_all_projects returned
\* idx:             the number of projects create_professional_docx has processed
\* list_calls:      the list_blobs calls made so far, per prefix
\* resolved:        the get_student_image_path calls that got past the name check
\* raised:          the step whose exception reached the handler, NoStep if none
\* attempts:        how many times each step of the handler was started
\* document:        the report blob: [uploaded, public]
\* response:        the handler's response, Idle until it responds
VARIABLES method, projects_data, idx, list_calls, resolved, raised, attempts,
          document, response

Idle == <<"idle">>

\* the longest listing, and the longest pattern list, the checks draw
MaxBlobs == 2
MaxPatterns == 2

\* the sequences without repetition, of at most n elements of S
RECURSIVE Listings(_, _)
Listings(S, n) ==
    IF n = 0 THEN { <<>> }
    ELSE LET shorter == Listings(S, n - 1)
         IN shorter \cup { Append(l, x) : l \in shorter, x \in S }

DistinctListings(S, n) ==
    { l \in Listings(S, n) : \A i, j \in DOMAIN l : i # j => l[i] # l[j] }

n_AliKhan == <<"A","l","i"," ","K","h","a","n">>
n_Ali == <<"A","l","i">>
n_Blank == <<" ">>
n_7Khan == <<"7"," ","K","h","a","n">>
n_Empty == <<>>

StudentNames == { n_AliKhan, n_Ali, n_Blank, n_7Khan, n_Empty }

b_ali_khan_photo ==
    s_students \o <<"a","l","i","_","k","h","a","n","_","p","h","o","t","o">> \o s_jpg
b_alikhan == s_students \o <<"a","l","i","k","h","a","n">> \o s_png
b_ali == s_students \o <<"a","l","i">> \o s_jpg
b_Khan_Ali == s_students \o <<"K","h","a","n","-","A","L","I">> \o s_png
b_bob == s_students \o <<"b","o","b">> \o s_jpg
b_alice == s_students \o <<"a","l","i","c","e">> \o s_jpg
b_project_ali == s_projects \o <<"a","l","i">> \o s_jpg

StudentBlobs ==
    { b_ali_khan_photo, b_alikhan, b_ali, b_Khan_Ali, b_bob, b_alice, b_project_ali }

p_alice == <<"*","a","l","i","c","e","*">>
p_bob == <<"*","b","o","b","*">>
p_ali == <<"*","a","l","i","*">>
p_q == <<"?","o","b",".","j","p","g">>

MatcherPatterns == { p_alice, p_bob, p_ali, p_q }

callvars == <<patterns_to_try, blobs, student_name, project_data, ret>>
sizevars == <<image_size, max_size>>
reportvars == <<method, projects_data, idx, list_calls, resolved, raised, attempts,
                document, response>>
allvars == <<store, faults, pc, callvars, sizevars, reportvars>>

\* the variables of the parts a specification does not exercise
NoCall ==
    /\ patterns_to_try = Idle
    /\ blobs = Idle
    /\ student_name = Idle
    /\ project_data = Idle

NoResize == image_size = Idle /\ max_size = Idle

NoReport ==
    /\ method = Idle
    /\ projects_data = Idle
    /\ idx = 0
    /\ list_calls = Idle
    /\ resolved = 0
    /\ raised = Idle
    /\ attempts = Idle
    /\ document = Idle
    /\ response = Idle

(***************************************************************************)
(* The matching loops of get_student_image_path, on any pattern list        *)
(***************************************************************************)
InitMatcher ==
    /\ store = <<>>
    /\ faults = {}
    /\ pc = "call"
    /\ patterns_to_try \in Listings(MatcherPatterns, MaxPatterns)
    /\ blobs \in DistinctListings(StudentBlobs, MaxBlobs)
    /\ student_name = Idle
    /\ project_data = Idle
    /\ ret = Idle
    /\ NoResize
    /\ NoReport

RunMatcher ==
    /\ pc = "call"
    /\ ret' = FindFirstMatch(patterns_to_try, blobs, 1)
    /\ pc' = "done"
    /\ UNCHANGED <<store, faults, patterns_to_try, blobs, student_name, project_data,
                   sizevars, reportvars>>

SpecMatcher == InitMatcher /\ [][RunMatcher]_allvars

(***************************************************************************)
(* One call of a resolver: get_student_image_path or get_project_image      *)
(***************************************************************************)
\* urllib.parse.quote(s, safe=''), the encoding of a storage path in a download
\* URL, on the characters of the modelled alphabet
RECURSIVE quote(_)
quote(s) ==
    IF s = <<>> THEN <<>>
    ELSE IF \E e \in PercentEscapes : e[3] = Head(s)
         THEN LET e == CHOOSE x \in PercentEscapes : x[3] = Head(s)
              IN <<"%", e[1], e[2]>> \o quote(Tail(s))
    ELSE <<Head(s)>> \o quote(Tail(s))

\* a download URL whose object part is enc
Url(enc) == <<"h", "/", "o", "/">> \o enc \o <<"?", "t">>

s_up == <<"u","p","/">>
u_ab == s_up \o <<"a"," ","b">> \o s_jpg
u_cd == s_up \o <<"c","(","d">> \o s_jpg
\* u_cd with only %2F and %20 decoded: what the first attempt asks for
u_cd_partial == s_up \o <<"c","%","2","8","d">> \o s_jpg

\* the storage paths the drawn image references point to
UrlPaths == { u_ab, u_cd }

\* no reference, an empty one, and references whose object part is a storage
\* path as it is, percent-encoded once, and percent-encoded twice
ImageUrls ==
    { Absent, <<>>, Url(u_ab) }
        \cup { Url(quote(p)) : p \in UrlPaths }
        \cup { Url(quote(quote(p))) : p \in UrlPaths }

id_p1 == <<"p","1">>
t_EcoBot == <<"E","c","o"," ","B","o","t">>
t_Bang == <<"!">>
t_SmartHomeHub == <<"S","m","a","r","t","H","o","m","e","H","u","b">>

t_Star == <<"*">>

Titles == { Absent, t_EcoBot, t_Bang, t_SmartHomeHub, t_Star }

Projects ==
    { [id |-> id_p1, title |-> ti, imageUrl |-> u] : ti \in Titles, u \in ImageUrls }

pj_p1 == s_projects \o id_p1 \o s_jpg
pj_project_p1 == s_projects \o s_project_ \o id_p1 \o s_png
pj_EcoBot == s_projects \o <<"E","c","o","B","o","t">> \o s_png
pj_Eco_Bot == s_projects \o t_EcoBot \o s_jpg
pj_MyEcoBot == s_projects \o <<"M","y","E","c","o","B","o","t">> \o s_jpg
pj_zz == s_projects \o <<"z","z">> \o s_jpg
pj_SmartHomeHX == s_projects \o <<"S","m","a","r","t","H","o","m","e","H","X">> \o s_png
pj_Scratch == s_projects \o s_Scratch \o s_png
pj_myecobot == s_projects \o <<"m","y","e","c","o","b","o","t">> \o s_jpg
pj_EcoBot_dir == s_projects \o <<"E","c","o","B","o","t","/","z">> \o s_jpg

ProjectBlobs ==
    { u_ab, u_cd, quote(u_ab), u_cd_partial, pj_p1, pj_project_p1, pj_EcoBot,
      pj_Eco_Bot, pj_MyEcoBot, pj_zz, pj_SmartHomeHX, pj_Scratch, pj_myecobot,
      pj_EcoBot_dir, s_default_project }

InitStudent ==
    /\ store \in DistinctListings(StudentBlobs, MaxBlobs)
    /\ faults = {}
    /\ pc = "call_student"
    /\ patterns_to_try = Idle
    /\ blobs = Idle
    /\ student_name \in StudentNames
    /\ project_data = Idle
    /\ ret = Idle
    /\ NoResize
    /\ NoReport

InitProject ==
    /\ store \in DistinctListings(ProjectBlobs, MaxBlobs)
    /\ faults = {}
    /\ pc = "call_project"
    /\ patterns_to_try = Idle
    /\ blobs = Idle
    /\ student_name = Idle
    /\ project_data \in Projects
    /\ ret = Idle
    /\ NoResize
    /\ NoReport

CallStudent ==
    /\ pc = "call_student"
    /\ ret' = get_student_image_path(student_name)
    /\ pc' = "done"
    /\ UNCHANGED <<store, faults, patterns_to_try, blobs, student_name, project_data,
                   sizevars, reportvars>>

CallProject ==
    /\ pc = "call_project"
    /\ ret' = get_project_image(project_data)
    /\ pc' = "done"
    /\ UNCHANGED <<store, faults, patterns_to_try, blobs, student_name, project_data,
                   sizevars, reportvars>>

NextResolve == CallStudent \/ CallProject

SpecResolve == (InitStudent \/ InitProject) /\ [][NextResolve]_allvars

(***************************************************************************)
(* Properties of the student matcher                                        *)
(***************************************************************************)
\* blob b matches pattern p the way the student matcher compares them
Matches(b, p) == fnmatch(BaseFilename(b), p)

Least(S) == CHOOSE x \in S : \A y \in S : x <= y

\* the places of the patterns of patterns_to_try that match some blob of blobs
MatchingPatterns ==
    { k \in DOMAIN patterns_to_try :
        \E j \in DOMAIN blobs : Matches(blobs[j], patterns_to_try[k]) }

\* C4: pattern order dominates blob order.  The matcher returns the first blob,
\* in listing order, that matches the earliest pattern matching any blob, and
\* returns None exactly when no pattern matches any blob.
C4_PatternOrderDominates ==
    pc = "done" =>
        IF MatchingPatterns = {}
        THEN ret.blob = None
        ELSE LET k0 == Least(MatchingPatterns)
                 j0 == Least({ j \in DOMAIN blobs : Matches(blobs[j], patterns_to_try[k0]) })
             IN ret.blob = blobs[j0] /\ ret.position = k0

\* C4's example: patterns [*alice*, *bob*] over the listing [bob.jpg, alice.jpg]
\* return alice.jpg
C4_Witness ==
    /\ pc = "done"
    /\ patterns_to_try = <<p_alice, p_bob>>
    /\ blobs = <<b_bob, b_alice>>
    /\ ret.blob = b_alice

\* the call for "Ali Khan" has returned and the students/ listing is l
AliKhanOver(l) ==
    pc = "done" /\ student_name = n_AliKhan /\ list_blobs(s_students) = l

\* C5, as amended: for "Ali Khan", the listing {ali_khan_photo.jpg} is matched by
\* the full normalized name pattern (the first candidate); the listing
\* {alikhan.png} is matched by the first-name pattern *ali* (the third candidate),
\* before the alpha-only patterns are reached; the empty listing gives None.
C5_AliKhanExamples ==
    /\ AliKhanOver(<<b_ali_khan_photo>>) =>
          /\ ret.value = b_ali_khan_photo
          /\ ret.position = 1
          /\ StudentPatterns(student_name)[ret.position]
                = <<"*","a","l","i","_","k","h","a","n","*">>
    /\ AliKhanOver(<<b_alikhan>>) =>
          /\ ret.value = b_alikhan
          /\ ret.position = 3
          /\ StudentPatterns(student_name)[ret.position] = p_ali
    /\ AliKhanOver(<<>>) => ret.value = None

C5_Witness == AliKhanOver(<<b_alikhan>>) /\ ret.value = b_alikhan

\* the places of the alpha-only patterns in the candidate list
AlphaOnlyPlaces == {7, 8}

\* C5 as stated: {alikhan.png} is matched via an alpha-only pattern, no earlier
\* pattern of the list matching that blob.
C5_MatchesViaAlphaOnly ==
    AliKhanOver(<<b_alikhan>>) =>
        /\ ret.value = b_alikhan
        /\ ret.position \in AlphaOnlyPlaces
        /\ \A k \in 1..(ret.position - 1) :
              ~Matches(b_alikhan, StudentPatterns(student_name)[k])

\* a pattern made of wildcards only: it matches every filename
WildcardOnly(p) == p # <<>> /\ \A i \in DOMAIN p : p[i] = "*"

\* C10: pattern generation never produces a wildcard-only pattern: every pattern
\* the student resolver iterates, and every wildcard candidate of the project
\* resolver, holds at least one name-derived character between its wildcards.
C10_NoWildcardOnlyPattern ==
    /\ (pc = "done" /\ student_name # Idle /\ ~Falsy(student_name)) =>
          \A k \in DOMAIN StudentPatterns(student_name) :
              ~WildcardOnly(StudentPatterns(student_name)[k])
    /\ (pc = "done" /\ student_name = Idle) =>
          \A k \in DOMAIN ProjectPatterns(project_data) :
              LET c == ProjectPatterns(project_data)[k]
              IN IsWildcard(c) =>
                    ~WildcardOnly(SplitFirst(SplitLast(c, <<"/">>), <<".">>))

\* a sequence with every later occurrence of an element removed
RECURSIVE Dedup(_)
Dedup(s) ==
    IF s = <<>> THEN <<>>
    ELSE LET front == Dedup(SubSeq(s, 1, Len(s) - 1))
             last == s[Len(s)]
         IN IF last \in Range(front) THEN front ELSE Append(front, last)

\* a student call that got as far as the matching loops
StudentMatched == pc = "done" /\ student_name # Idle /\ ~Falsy(student_name)

\* the listing the student matcher ran over
StudentListing == SelectSeq(store, LAMBDA n : StartsWith(n, s_students))

\* the pattern at place k matches some blob of the listing
StudentHit(k) ==
    \E j \in DOMAIN StudentListing :
        Matches(StudentListing[j], StudentPatterns(student_name)[k])

\* the last place of the pattern list the loops reached
LastRun == IF ret.position = 0 THEN Len(StudentPatterns(student_name))
           ELSE ret.position

\* what the loops give on pattern list D: the first blob of the listing that
\* matches the first pattern of D matching any blob, None when there is none
FirstOver(D) ==
    LET hit(k) == \E j \in DOMAIN StudentListing : Matches(StudentListing[j], D[k])
        ks == { k \in DOMAIN D : hit(k) }
    IN IF ks = {} THEN None
       ELSE LET k0 == Least(ks)
                js == { j \in DOMAIN StudentListing : Matches(StudentListing[j], D[k0]) }
            IN StudentListing[Least(js)]

ClaimedCandidates(project) ==
    LET id == Get(project, "id", s_unknown)
        raw == Get(project, "title", s_unknown)
        cleaned == clean_filename(raw)
        stems == << id, s_project_ \o id, cleaned, raw,
                    Star \o Take(cleaned, 10) \o Star >>
    IN [ i \in 1..10 |-> s_projects \o stems[(i + 1) \div 2]
                            \o (IF i % 2 = 1 THEN s_jpg ELSE s_png) ]
        \o << s_projects \o s_dec_cap_vale \o s_png,
              s_projects \o s_IOTbasedRealTimeApp \o s_jpg,
              s_projects \o s_Scratch \o s_png >>

\* the sources of a project's image, in the order the claim gives them: the path
\* decoded from imageUrl, the fully percent-decoded path, the thirteen candidates,
\* the default asset
ProjectSources(project) ==
    (IF Falsy(project.imageUrl) THEN <<>>
     ELSE <<ImagePath(project.imageUrl), unquote(ImagePath(project.imageUrl))>>)
        \o ClaimedCandidates(project) \o <<s_default_project>>

\* the blobs a wildcard source matches, in listing order
GlobHits(src) == SelectSeq(list_blobs(s_projects), LAMBDA b : fnmatch(b, src))

\* what retrieving a source yields in the current store: a literal source is the
\* blob at that path, a wildcard source the first listed blob it matches
Retrieved(src) ==
    IF src = <<>> THEN None
    ELSE IF IsWildcard(src)
         THEN (IF GlobHits(src) = <<>> THEN None ELSE BytesIO(GlobHits(src)[1]))
    ELSE IF src \in Range(store) THEN BytesIO(src) ELSE None

\* what the earliest source whose retrieval succeeds yields, None when none does
RECURSIVE FirstRetrieved(_)
FirstRetrieved(sources) ==
    IF sources = <<>> THEN None
    ELSE LET r == Retrieved(Head(sources))
         IN IF r # None THEN r ELSE FirstRetrieved(Tail(sources))

ProjectDone == pc = "done" /\ student_name = Idle /\ blobs = Idle

\* a download in the trace of a call
IsDownload(op) == op[1] = "download"

\* C1: the sources are tried in strict order and the first success ends the call.
\* The returned bytes are those of the earliest source whose retrieval succeeds
\* (None when none does), and the successful download is the last store
\* operation of the call and its only download.
C1_FirstSuccessInOrder ==
    ProjectDone =>
        /\ ret.value = FirstRetrieved(ProjectSources(project_data))
        /\ ret.value # None =>
              /\ ret.ops[Len(ret.ops)] = Op("download", ret.value[2])
              /\ \A i \in 1..(Len(ret.ops) - 1) : ~IsDownload(ret.ops[i])

\* a call that found the id candidate absent and returned the project_<id> one
C1_Witness ==
    /\ ProjectDone
    /\ Falsy(project_data.imageUrl)
    /\ ret.value = BytesIO(pj_project_p1)
    /\ s_default_project \in Range(store)

\* no image reference, and no candidate that can be retrieved
NothingButDefault ==
    /\ ProjectDone
    /\ Falsy(project_data.imageUrl)
    /\ \A k \in DOMAIN ProjectPatterns(project_data) :
          Retrieved(ProjectPatterns(project_data)[k]) = None

\* C2: with no imageUrl and no retrievable candidate, the call returns the bytes
\* of projects/default_project.jpg when that blob exists, and None, without
\* raising, when it does not.
C2_DefaultAsset ==
    NothingButDefault =>
        /\ ~ret.raised
        /\ ret.value = (IF s_default_project \in Range(store)
                        THEN BytesIO(s_default_project) ELSE None)

C2_Witness ==
    /\ NothingButDefault
    /\ ret.value = BytesIO(s_default_project)
    /\ Len(store) = MaxBlobs

\* the call was made for a project whose imageUrl is url
ProjectDoneWith(url) == ProjectDone /\ project_data.imageUrl = url

\* C3, as amended: a reference whose storage path is percent-encoded once with an
\* escape other than %2F and %20 resolves to the blob at the original path in
\* exactly two attempts when no blob is stored under the partially decoded path:
\* the first attempt (only %2F and %20 reversed) does not find it, the second
\* (full percent-decoding) retrieves it.  A reference percent-encoded twice is not
\* resolved by either attempt: the first asks for the twice-encoded path, the
\* second for the once-encoded path, and neither for the original path.
C3_SecondAttemptDecodesOnce ==
    /\ (/\ ProjectDoneWith(Url(quote(u_cd)))
        /\ u_cd \in Range(store)
        /\ u_cd_partial \notin Range(store)) =>
          /\ ret.value = BytesIO(u_cd)
          /\ ret.ops = <<Op("exists", u_cd_partial), Op("exists", u_cd),
                         Op("download", u_cd)>>
    /\ \A p \in UrlPaths :
          ProjectDoneWith(Url(quote(quote(p)))) =>
              /\ ret.ops[1] = Op("exists", quote(quote(p)))
              /\ Op("exists", p) \notin Range(ret.ops)
              /\ ret.value # BytesIO(p)
              /\ quote(p) \in Range(store) => ret.value = BytesIO(quote(p))
              /\ quote(p) \notin Range(store) => ret.ops[2] = Op("exists", quote(p))

C3_Witness ==
    /\ ProjectDoneWith(Url(quote(u_cd)))
    /\ ret.value = BytesIO(u_cd)
    /\ Len(ret.ops) = 3

\* C3 as stated: a reference whose storage path is percent-encoded twice resolves
\* to the blob at the original path after exactly two attempts, the first not
\* finding the blob and the second retrieving it.
C3_DoubleEncodedResolves ==
    \A p \in UrlPaths :
        (/\ ProjectDoneWith(Url(quote(quote(p))))
         /\ p \in Range(store)
         /\ quote(p) \notin Range(store)) =>
            /\ ret.value = BytesIO(p)
            /\ Len(ret.ops) = 3
            /\ ret.ops[2] = Op("exists", p)
            /\ ret.ops[3] = Op("download", p)

(***************************************************************************)
(* resize_image_for_docx                                                    *)
(*                                                                         *)
(* Lengths are exact fractions n/d of a hundredth of an inch, so that        *)
(* width / 100 is the fraction width/1.  Python computes them in binary      *)
(* floating point; the model computes them exactly, and truncates to whole   *)
(* EMU as docx.shared.Inches does.                                          *)
(***************************************************************************)
Frac(n, d) == [n |-> n, d |-> d]

\* a > b
Gt(a, b) == a.n * b.d > b.n * a.d

\* min(a, b)
Min(a, b) == IF Gt(a, b) THEN b ELSE a

\* floor(a * b / c) for naturals a, b and c > 0, without forming a * b
MulDiv(a, b, c) == (a \div c) * b + ((a % c) * b) \div c

\* docx.shared.Inches(x) = int(x * 914400), in EMU, for x in hundredths of an inch
Inches(x) == MulDiv(x.n, 9144, x.d)

\* Image.open failed: the except branch of lines 177-179
Unreadable == <<"unreadable">>

\* Inches(new_width) with the width bound dropped: the first clamp forgotten
resize_image_for_docx_no_width_clamp(size, max) ==
    IF size = Unreadable THEN <<Inches(Frac(150, 1)), Inches(Frac(150, 1))>>
    ELSE LET width == size[1]
             height == size[2]
             max_height == Frac(max[2], 1)
             new_height == Min(max_height, Frac(height, 1))
         IN <<Inches(Frac(new_height.n * width, new_height.d * height)),
              Inches(new_height)>>

resize_image_for_docx(size, max) ==
    IF size = Unreadable THEN <<Inches(Frac(150, 1)), Inches(Frac(150, 1))>>
    ELSE LET width == size[1]
             height == size[2]
             max_width == Frac(max[1], 1)
             max_height == Frac(max[2], 1)
             \* new_width / aspect_ratio and new_height * aspect_ratio
             first ==
                IF width > height
                THEN LET new_width == Min(max_width, Frac(width, 1))
                     IN [w |-> new_width,
                         h |-> Frac(new_width.n * height, new_width.d * width)]
                ELSE LET new_height == Min(max_height, Frac(height, 1))
                     IN [w |-> Frac(new_height.n * width, new_height.d * height),
                         h |-> new_height]
             second ==
                IF Gt(first.w, max_width)
                THEN [w |-> max_width,
                      h |-> Frac(max_width.n * height, max_width.d * width)]
                ELSE first
             third ==
                IF Gt(second.h, max_height)
                THEN [w |-> Frac(max_height.n * width, max_height.d * height),
                      h |-> max_height]
                ELSE second
         IN <<Inches(third.w), Inches(third.h)>>

\* the pixel sizes drawn: a few small ones and the hundreds up to 100 * MaxHundreds
MaxHundreds == 20
PixelSizes == {1, 3, 7, 57} \cup { 100 * k : k \in 1..MaxHundreds }

\* the boxes of the two call sites, in hundredths of an inch: the default
\* 1.5 x 1.5 and the project image's 4 x 3
Boxes == { <<150, 150>>, <<400, 300>> }

InitResize ==
    /\ store = <<>>
    /\ faults = {}
    /\ pc = "call"
    /\ NoCall
    /\ ret = Idle
    /\ image_size \in (PixelSizes \X PixelSizes) \cup {Unreadable}
    /\ max_size \in Boxes
    /\ NoReport

CallResize ==
    /\ pc = "call"
    /\ ret' = resize_image_for_docx(image_size, max_size)
    /\ pc' = "done"
    /\ UNCHANGED <<store, faults, patterns_to_try, blobs, student_name, project_data,
                   sizevars, reportvars>>

SpecResize == InitResize /\ [][CallResize]_allvars

\* the image could be read and resize_image_for_docx has returned
Resized == pc = "done" /\ image_size # Unreadable

\* a * h <= b * w, without forming the products
LeqScaled(a, h, b, w) ==
    MulDiv(a, h, w) + (IF ((a % w) * h) % w = 0 THEN 0 ELSE 1) <= b

\* C9, as amended: for every positive pixel size and box the rendered width is at
\* most maxWidth and the rendered height at most maxHeight, and the aspect ratio
\* is preserved up to the truncation of each rendered dimension to a whole EMU
\* (1/914400 inch): some exact size t*width by t*height differs from the rendered
\* one by at most one EMU in each dimension.  (2000, 1000) in the box 4 x 3
\* yields exactly 4 x 2 inches and (1000, 2000) exactly 1.5 x 3 inches.
C9_BoundedAspectWithinOneEmu ==
    Resized =>
        LET width == image_size[1]
            height == image_size[2]
            rw == ret[1]
            rh == ret[2]
        IN /\ rw <= Inches(Frac(max_size[1], 1))
           /\ rh <= Inches(Frac(max_size[2], 1))
           /\ rw >= 1 /\ rh >= 1
           /\ LeqScaled(rw - 1, height, rh + 1, width)
           /\ LeqScaled(rh - 1, width, rw + 1, height)
           /\ (image_size = <<2000, 1000>> /\ max_size = <<400, 300>>) =>
                 ret = <<Inches(Frac(400, 1)), Inches(Frac(200, 1))>>
           /\ (image_size = <<1000, 2000>> /\ max_size = <<400, 300>>) =>
                 ret = <<Inches(Frac(150, 1)), Inches(Frac(300, 1))>>

\* a size whose height is bound by the box and whose width is not a whole EMU
C9_Witness ==
    /\ Resized
    /\ image_size = <<300, 700>>
    /\ max_size = <<150, 150>>
    /\ ret = <<587828, 1371600>>

\* a * h = b * w, without forming the products
EqScaled(a, h, b, w) ==
    /\ MulDiv(a, h, w) = b
    /\ ((a % w) * h) % w = 0

\* C9 as stated: rendered width / rendered height equals width / height.
C9_AspectExact ==
    Resized => EqScaled(ret[1], image_size[2], ret[2], image_size[1])

(***************************************************************************)
(* create_professional_docx and generate_docx: one request to /             *)
(***************************************************************************)
\* the team photos loop of lines 409-434 from student k on: each student's path
\* is resolved and, when one is found, downloaded; an exception of the resolver
\* ends the loop.  resolved counts the calls that got past the name check.
RECURSIVE TeamPhotos(_, _)
TeamPhotos(students_data, k) ==
    IF k > Len(students_data) THEN [raised |-> FALSE, ops |-> <<>>, resolved |-> 0]
    ELSE LET student_name_k == students_data[k]
             image_path == get_student_image_path(student_name_k)
             started == IF Falsy(student_name_k) THEN 0 ELSE 1
         IN IF image_path.raised
            THEN [raised |-> TRUE, ops |-> image_path.ops, resolved |-> started]
            ELSE LET image_stream == IF image_path.value # None
                                     THEN download_image_from_storage(image_path.value)
                                     ELSE [value |-> None, ops |-> <<>>]
                     rest == TeamPhotos(students_data, k + 1)
                 IN [raised |-> rest.raised,
                     ops |-> image_path.ops \o image_stream.ops \o rest.ops,
                     resolved |-> started + rest.resolved]

\* one pass of the project loop of lines 316-438: the project image, then the
\* team photos
ProcessProject(project) ==
    LET image_stream == get_project_image(project)
    IN IF image_stream.raised
       THEN [raised |-> TRUE, ops |-> image_stream.ops, resolved |-> 0]
       ELSE LET photos == TeamPhotos(project.students, 1)
            IN [raised |-> photos.raised, ops |-> image_stream.ops \o photos.ops,
                resolved |-> photos.resolved]

\* the number of times op occurs in a trace
RECURSIVE CountOp(_, _)
CountOp(ops, op) ==
    IF ops = <<>> THEN 0
    ELSE (IF Head(ops) = op THEN 1 ELSE 0) + CountOp(Tail(ops), op)

\* the most students a fetched project has, and the most projects a fetch returns
MaxStudents == 2
MaxProjects == 2

\* the names of a project's students are the first n of this roster, repeated
Roster == <<n_AliKhan, n_Empty, n_Ali>>
Students(n) == [i \in 1..n |-> Roster[((i - 1) % Len(Roster)) + 1]]

FetchedProjects ==
    { [id |-> id_p1, title |-> t_EcoBot, imageUrl |-> Absent, students |-> Students(n)] :
        n \in 0..MaxStudents }

ReportStores ==
    { <<>>, <<b_alikhan, s_default_project>>, <<b_ali_khan_photo, pj_p1>> }

\* the store operations that may raise during a request
ReportFaults ==
    { Op("list", s_students), Op("list", s_projects), Op("download", b_alikhan) }

NoStep == "none"
Steps == { "fetch", "build", "save", "upload", "make_public", "unlink" }

s_report == <<"d","o","c","u","m","e","n","t","s","/","A","l","l","_","P","r","o","j",
              "e","c","t","s","_","R","e","p","o","r","t","_">>

\* jsonify({...}), status: the response's success flag, whether it carries a
\* message and a download_url, and its status code
Response(status, success, message, download_url) ==
    [status |-> status, success |-> success, message |-> message,
     download_url |-> download_url]

\* the except branch of lines 601-607
InternalError == Response(500, FALSE, TRUE, FALSE)

InitReport ==
    /\ store \in ReportStores
    /\ faults \in SUBSET ReportFaults
    /\ pc = "request"
    /\ NoCall
    /\ ret = Idle
    /\ NoResize
    /\ method \in {"GET", "POST"}
    /\ projects_data = <<>>
    /\ idx = 0
    /\ list_calls = [students |-> 0, projects |-> 0]
    /\ resolved = 0
    /\ raised = NoStep
    /\ attempts = [s \in Steps |-> 0]
    /\ document = [uploaded |-> FALSE, public |-> FALSE]
    /\ response = Idle

Started(step) == attempts' = [attempts EXCEPT ![step] = @ + 1]

\* the step raised: the handler's except branch answers 500
Raise(step) ==
    /\ raised' = step
    /\ response' = InternalError
    /\ pc' = "responded"

\* GET /: the service description
HandleGet ==
    /\ pc = "request"
    /\ method = "GET"
    /\ response' = Response(200, Idle, FALSE, FALSE)
    /\ pc' = "responded"
    /\ UNCHANGED <<store, faults, callvars, sizevars, method, projects_data, idx,
                   list_calls, resolved, raised, attempts, document>>

\* FetchProjects without the check of lines 564-568: an empty result goes on
FetchProjectsNoEmptyCheck ==
    /\ pc = "request"
    /\ method = "POST"
    /\ Started("fetch")
    /\ \/ /\ Raise("fetch")
          /\ UNCHANGED projects_data
       \/ /\ projects_data' \in Listings(FetchedProjects, MaxProjects)
          /\ raised' = raised
          /\ response' = response
          /\ pc' = IF projects_data' = <<>> THEN "save" ELSE "build"
    /\ UNCHANGED <<store, faults, callvars, sizevars, method, idx, list_calls,
                   resolved, document>>

\* POST /: fetch_all_projects raises, returns no project (404) or returns some
FetchProjects ==
    /\ pc = "request"
    /\ method = "POST"
    /\ Started("fetch")
    /\ \/ /\ Raise("fetch")
          /\ UNCHANGED projects_data
       \/ /\ projects_data' \in Listings(FetchedProjects, MaxProjects)
          /\ raised' = raised
          /\ IF projects_data' = <<>>
             THEN response' = Response(404, FALSE, TRUE, FALSE) /\ pc' = "responded"
             ELSE response' = response /\ pc' = "build"
    /\ UNCHANGED <<store, faults, callvars, sizevars, method, idx, list_calls,
                   resolved, document>>

\* create_professional_docx, one project per step: a document-builder call may
\* throw, an exception of a resolver reaches the handler, else the next project
BuildProject ==
    /\ pc = "build"
    /\ idx < Len(projects_data)
    /\ attempts' = [attempts EXCEPT !["build"] = IF idx = 0 THEN @ + 1 ELSE @]
    /\ \/ /\ Raise("docx")
          /\ UNCHANGED <<idx, list_calls, resolved>>
       \/ LET r == ProcessProject(projects_data[idx + 1])
          IN /\ list_calls' =
                    [students |-> list_calls.students + CountOp(r.ops, Op("list", s_students)),
                     projects |-> list_calls.projects + CountOp(r.ops, Op("list", s_projects))]
             /\ resolved' = resolved + r.resolved
             /\ IF r.raised
                THEN Raise("list_blobs") /\ idx' = idx
                ELSE /\ idx' = idx + 1
                     /\ pc' = IF idx + 1 = Len(projects_data) THEN "save" ELSE "build"
                     /\ UNCHANGED <<raised, response>>
    /\ UNCHANGED <<store, faults, callvars, sizevars, method, projects_data, document>>

\* doc.save to the temporary file
SaveDocument ==
    /\ pc = "save"
    /\ Started("save")
    /\ \/ Raise("save")
       \/ pc' = "upload" /\ UNCHANGED <<raised, response>>
    /\ UNCHANGED <<store, faults, callvars, sizevars, method, projects_data, idx,
                   list_calls, resolved, document>>

\* blob.upload_from_file to documents/All_Projects_Report_<timestamp>.docx
UploadDocument ==
    /\ pc = "upload"
    /\ Started("upload")
    /\ \/ Raise("upload") /\ UNCHANGED <<store, document>>
       \/ /\ store' = Append(store, s_report)
          /\ document' = [document EXCEPT !.uploaded = TRUE]
          /\ pc' = "make_public"
          /\ UNCHANGED <<raised, response>>
    /\ UNCHANGED <<faults, callvars, sizevars, method, projects_data, idx,
                   list_calls, resolved>>

\* blob.make_public()
MakePublic ==
    /\ pc = "make_public"
    /\ Started("make_public")
    /\ \/ Raise("make_public") /\ UNCHANGED document
       \/ /\ document' = [document EXCEPT !.public = TRUE]
          /\ pc' = "unlink"
          /\ UNCHANGED <<raised, response>>
    /\ UNCHANGED <<store, faults, callvars, sizevars, method, projects_data, idx,
                   list_calls, resolved>>

\* os.unlink of the temporary file, then the success response
UnlinkAndRespond ==
    /\ pc = "unlink"
    /\ Started("unlink")
    /\ \/ Raise("unlink")
       \/ /\ response' = Response(200, TRUE, TRUE, TRUE)
          /\ pc' = "responded"
          /\ UNCHANGED raised
    /\ UNCHANGED <<store, faults, callvars, sizevars, method, projects_data, idx,
                   list_calls, resolved, document>>

NextReport ==
    \/ HandleGet
    \/ FetchProjects
    \/ BuildProject
    \/ SaveDocument
    \/ UploadDocument
    \/ MakePublic
    \/ UnlinkAndRespond

Spec == InitReport /\ [][NextReport]_allvars

(***************************************************************************)
(* Properties of a report generation                                        *)
(***************************************************************************)
\* the students of the fetched projects whose name is not empty
RECURSIVE NamedStudents(_)
NamedStudents(projects) ==
    IF projects = <<>> THEN 0
    ELSE Cardinality({ i \in DOMAIN Head(projects).students :
                          ~Falsy(Head(projects).students[i]) })
            + NamedStudents(Tail(projects))

\* the POST was answered with the success response
Succeeded == pc = "responded" /\ method = "POST" /\ response.status = 200

C7_StoreFailureIsNotFound ==
    /\ raised # "list_blobs"
    /\ (pc = "responded" /\ method = "POST" /\ raised = NoStep
            /\ projects_data # <<>>) =>
          /\ idx = Len(projects_data)
          /\ response.status = 200

\* the report blob is uploaded and public
Published == document.uploaded /\ document.public

\* C8: a POST publishes the document only when at least one project was fetched
\* and construction and upload completed; when no project matches or a step
\* raises, the response is 404 or 500 with a message and without success; no step
\* is started twice.
C8_PublishOnlyOnSuccess ==
    /\ Published =>
          /\ method = "POST"
          /\ Len(projects_data) >= 1
          /\ idx = Len(projects_data)
          /\ s_report \in Range(store)
    /\ (pc = "responded" /\ method = "POST"
            /\ (projects_data = <<>> \/ raised # NoStep)) =>
          /\ response.status \in {404, 500}
          /\ response.success = FALSE
          /\ response.message
          /\ ~response.download_url
    /\ (pc = "responded" /\ method = "POST" /\ projects_data = <<>>
            /\ raised = NoStep) => response.status = 404
    /\ Succeeded => Published /\ response.success
    /\ \A s \in Steps : attempts[s] <= 1

\* a published report whose request still failed, in os.unlink
C8_Witness ==
    /\ pc = "responded"
    /\ Published
    /\ raised = "unlink"
    /\ response.status = 500


(***************************************************************************)
(* Properties of the wildcard comparison                                    *)
(***************************************************************************)
\* the comparison as the claim gives it: the lowercased last path segment of the
\* blob against the lowercased last path segment of the glob
MatchesBaseNoCase(b, glob) ==
    fnmatch(SplitLast(Lower(b), <<"/">>), SplitLast(Lower(glob), <<"/">>))

\* the blobs of the projects/ listing a wildcard candidate matches that way
BaseNoCaseHits(glob) ==
    SelectSeq(store, LAMBDA b : StartsWith(b, s_projects) /\ MatchesBaseNoCase(b, glob))

\* a get_project_image call that reached its wildcard candidates
WildcardsReached == ProjectDone /\ Op("list", s_projects) \in Range(ret.ops)

\* C12: every wildcard match, in the student resolver and in the project
\* resolver, compares the lowercased glob with the lowercased base filename of
\* the blob, never with the full storage path.  A student call returns a blob
\* iff some pattern matches some listed blob that way, and a project call that
\* reaches its wildcard candidates returns the first listed blob the .jpg
\* candidate matches that way, else the first the .png candidate matches, else
\* what the legacy candidates and the default asset give.
C12_BaseFilenameNoCase ==
    /\ StudentMatched =>
          /\ ret.value # None <=>
                \E k \in DOMAIN StudentPatterns(student_name) :
                    \E j \in DOMAIN StudentListing :
                        MatchesBaseNoCase(StudentListing[j],
                                          StudentPatterns(student_name)[k])
          /\ ret.value # None =>
                MatchesBaseNoCase(ret.value, StudentPatterns(student_name)[ret.position])
    /\ WildcardsReached =>
          LET c == ClaimedCandidates(project_data)
              jpg == BaseNoCaseHits(c[9])
              png == BaseNoCaseHits(c[10])
          IN ret.value = (IF jpg # <<>> THEN BytesIO(jpg[1])
                          ELSE IF png # <<>> THEN BytesIO(png[1])
                          ELSE FirstRetrieved(<<c[11], c[12], c[13], s_default_project>>))

(***************************************************************************)
(* Properties of the projects/ listing                                      *)
(***************************************************************************)
\* the list_blobs(prefix="projects/") calls of the call that returned
ProjectListings ==
    Cardinality({ i \in DOMAIN ret.ops : ret.ops[i] = Op("list", s_projects) })

\* the place of the last candidate the loop evaluated: 0 when the image reference
\* gave the image, the place of the first candidate that gives one, else the last
CandidatesEvaluated ==
    LET c == ClaimedCandidates(project_data)
        url == IF Falsy(project_data.imageUrl) THEN <<>>
               ELSE <<ImagePath(project_data.imageUrl),
                      unquote(ImagePath(project_data.imageUrl))>>
        ks == { k \in DOMAIN c : Retrieved(c[k]) # None }
    IN IF FirstRetrieved(url) # None THEN 0
       ELSE IF ks = {} THEN Len(c)
       ELSE Least(ks)

=============================================================================
